---- MODULE Spec2Model ----
(***************************************************************************)
(* Model of db2_helpers: the secret-key lifecycle (generation, lock,       *)
(* unlock, temporary unlock), the encrypted settings files, the            *)
(* db_credentials / db_export / db_import commands and import_table.       *)
(*                                                                         *)
(* Cryptography is modelled symbolically: a Fernet token records the key, *)
(* the message and the random IV it was made with and decrypts only under *)
(* the same key; blake2b and PBKDF2 are injective.                         *)
(***************************************************************************)
EXTENDS Integers, Sequences, FiniteSets, TLC

\* ---------------------------------------------------------------- bounds
\* Number of secrets Fernet.generate_key() may hand out in one behaviour.
MaxKeys == 2
\* Number of distinct random IVs a Fernet encryption may draw.
MaxNonce == 2
\* Number of rows of a CSV file / of a table.
MaxRows == 2

\* ------------------------------------------------------- program constants
\* db_keys_get: "if attempts > 9: getit = False"
PromptLimit == 9

\* ---------------------------------------------------------- Python values
None == "<None>"
\* Python truthiness of an optional string
Truthy(x) == x # None /\ x # ""

\* Evaluates v once and applies F to the value
Let(v, F(_)) == CHOOSE r \in {F(x) : x \in {v}} : TRUE

\* Return values, tagged by kind so that they can be compared
RetTrue == [k |-> "True"]
RetFalse == [k |-> "False"]
RetNone == [k |-> "None"]
RetDict(d) == [k |-> "dict", v |-> d]
Raise(e) == [k |-> "raise", exc |-> e]
\* collections.OrderedDict()
EmptyDict == [k |-> "dict", v |-> [empty |-> TRUE]]
\* no call was made
NoCall == [k |-> "nocall"]
\* a path at which no file exists
NoFile == [exists |-> FALSE]

\* ------------------------------------------------------------ input sets
PassPhrases == {"", "p", "q"}
\* What the user types at the getpass() prompts of db_keys_get: k times b, then a
Script(k, b, a) == [i \in 1..(PromptLimit + 1) |-> IF i > k THEN a ELSE b]
PromptScripts == {Script(0, "", "p"), Script(0, "", ""), Script(PromptLimit, "q", "p")}
\* The password argument of a call and the answers to the prompts it may
\* make: db_keys_get prompts only when the password is empty or None
Credentials ==
  {[password |-> pw, script |-> Script(0, "", "")] : pw \in {"p", "q"}}
    \cup {[password |-> None, script |-> s] : s \in PromptScripts}
\* The pass phrase argument of db_keys_lock and the answers to its two prompts,
\* which it makes only when the argument is empty or None
LockInputs ==
  {[passphrase |-> pw, p1 |-> "", p2 |-> ""] : pw \in {"p", "q"}}
    \cup {[passphrase |-> pw, p1 |-> a.p1, p2 |-> a.p2] :
            pw \in {None, ""},
            a \in {[p1 |-> "", p2 |-> ""], [p1 |-> "p", p2 |-> "p"], [p1 |-> "p", p2 |-> "q"]}}
\* The same for db_keys_unlock and its one prompt
UnlockInputs ==
  {[passphrase |-> pw, p1 |-> ""] : pw \in {"p", "q"}}
    \cup {[passphrase |-> pw, p1 |-> a] : pw \in {None, ""}, a \in PassPhrases}

dev == <<"d", "e", "v">>
Environments == {dev, <<"D", "E", "V">>}
Hostnames == {<<"h">>}
Databases == {<<"s">>, <<"t">>}

\* Outcome of writing / chmod-ing a file, fixed by the file system's
\* ownership and directory permissions for the whole behaviour.
KeyFsOutcomes == {"ok", "write:PermissionError", "write:FileNotFoundError", "chmod:PermissionError"}
SettingsFsOutcomes == {"ok", "write:PermissionError", "chmod:PermissionError"}

\* ------------------------------------------------------------------ crypto
NoKey == [src |-> "none", v |-> ""]
\* a string that is not a Fernet token
Plain(m) == [t |-> "plain", key |-> NoKey, msg |-> m, iv |-> 0]
\* the n-th secret Fernet.generate_key() returns
Fernet_generate_key(n) == "K" \o ToString(n)
blake2b(x) == "blake2b(" \o x \o ")"
password_to_key(passphrase) == [src |-> "pbkdf2", v |-> passphrase]
\* Fernet(str.encode(secret))
FernetKey(secret) == [src |-> "raw", v |-> secret]
encrypt(key, m, iv) == [t |-> "fernet", key |-> key, msg |-> m, iv |-> iv]
\* decrypt raises InvalidToken unless the token was made with this key
CanDecrypt(key, tok) == tok.t = "fernet" /\ tok.key = key
decrypt(key, tok) == tok.msg

\* ------------------------------------------------------------ file names
\* Names are sequences of characters (or of longer chunks of text), so that
\* lower() and upper() can be applied to them
UpperChars == <<"D", "E", "V", "H", "S", "T", "SSL">>
LowerChars == <<"d", "e", "v", "h", "s", "t", "ssl">>
LowerChar(c) ==
  IF \E i \in 1..Len(UpperChars) : UpperChars[i] = c
  THEN LowerChars[CHOOSE i \in 1..Len(UpperChars) : UpperChars[i] = c]
  ELSE c
\* str.lower()
Lower(s) == [i \in 1..Len(s) |-> LowerChar(s[i])]
UpperChar(c) ==
  IF \E i \in 1..Len(LowerChars) : LowerChars[i] = c
  THEN UpperChars[CHOOSE i \in 1..Len(LowerChars) : LowerChars[i] = c]
  ELSE c
\* str.upper()
Upper(s) == [i \in 1..Len(s) |-> UpperChar(s[i])]
\* <environment>_<hostname>_<database>.pickle
SettingsFileName(environment, hostname, database) ==
  Lower(environment) \o <<"_">> \o Lower(hostname) \o <<"_">> \o Lower(database) \o <<".pickle">>


\* _default_settings with the prompted fields filled in
Settings(database, hostname, environment, pwd) ==
  [database |-> database, hostname |-> hostname, protocol |-> <<"tcpip">>,
   port |-> <<"50000">>, uid |-> <<"db2inst1">>, pwd |-> Plain(pwd),
   environment |-> environment, security |-> <<"nossl">>, servercert |-> "db2inst1.arm",
   secrethash |-> ""]
SettingsInputs ==
  { Settings(<<"s">>, <<"h">>, dev, "password"),
    Settings(<<"s">>, <<"h">>, <<"D", "E", "V">>, "tiger"),
    Settings(<<"t">>, <<"h">>, dev, "tiger") }

VARIABLES
  keyfile,        \* content of ~/.db2_helpers.secret.key, or NoFile
  keyperm,        \* its permissions: "absent", "umask" (as created) or "0600"
  keysGenerated,  \* how many secrets Fernet.generate_key() has returned
  setfiles,       \* settings file name -> content or NoFile
  setperm,        \* settings file name -> permissions
  fsKey,          \* what writing / chmod-ing the key file does
  fsSettings,     \* what writing / chmod-ing a settings file does
  last,           \* the last library call: name, inputs, return value, message
  lockSnap,       \* the key file as it was before the last effective-input lock call
  saved,          \* the settings given to the last db_save_settings that returned True
  keyChange,      \* the last operation that changed the key file, and its pass phrase
  \* a run of one of the commands (db_credentials, db_export, db_import)
  cpc,            \* where the command is: "idle", a step of it, or "exit"
  ccmd,           \* the command and its options
  clocal,         \* its locals: settings and doit
  hdbc,           \* db2_helpers._hdbc
  cout,           \* the messages printed so far
  cshown,         \* the lines db_show_settings has printed in this run
  cexit,          \* exit status and uncaught exception
  connectLog,     \* the last db_connect call: its argument and db_connected() after it
  saveLog,        \* the settings db_save_settings was called with in this run
  loadLog,        \* what db_load_settings returned in this run
  \* a call of import_table
  ipc,            \* where the call is: "idle", a step of it, or "return"
  icall,          \* its arguments and the _headers_expected global
  itable,         \* the rows of the table in the database
  icsv,           \* _folder: file name -> the rows of the CSV file, or NoFile
  irow,           \* the number of rows the reader has handed out
  istmt,          \* the prepared INSERT statement: its column list
  icount,         \* count_records and count_table_rows
  ievents,        \* the statements executed against the table, in order
  iret            \* what the call returned

libvars == <<keyfile, keyperm, keysGenerated, setfiles, setperm, fsKey, fsSettings,
             last, lockSnap, saved, keyChange>>
cmdvars == <<cpc, ccmd, clocal, hdbc, cout, cshown, cexit, connectLog, saveLog, loadLog>>
impvars == <<ipc, icall, itable, icsv, irow, istmt, icount, ievents, iret>>
vars == <<libvars, cmdvars, impvars>>

\* ------------------------------------------------------------ file system
\* open(path, "wb") raises and leaves the path untouched
WriteRaises(fs) == fs = "write:PermissionError" \/ fs = "write:FileNotFoundError"
\* os.chmod raises PermissionError
ChmodRaises(fs) == fs = "chmod:PermissionError"
\* permissions of a path after open(path, "wb") succeeded
Created(perm) == IF perm = "absent" THEN "umask" ELSE perm
\* permissions after the chmod step: S_IRUSR | S_IWUSR when the chmod went through
Chmodded(perm, fs) == IF fs = "chmod:PermissionError" THEN Created(perm) ELSE "0600"

ReadFile(files, name) == IF name \in DOMAIN files THEN files[name] ELSE NoFile
PermOf(perms, name) == IF name \in DOMAIN perms THEN perms[name] ELSE "absent"
WriteFile(files, name, content) ==
  [n \in (DOMAIN files) \cup {name} |-> IF n = name THEN content ELSE files[n]]

\* ------------------------------------------------------------- db_keys_set
\* The record db_keys_set builds when newkey is set
NewKeyMutLocked(n) ==
  [secret |-> Plain(Fernet_generate_key(n)), locked |-> TRUE, hash |-> None,
   secrethash |-> blake2b(Fernet_generate_key(n))]
NewKeyRecord(n) ==
  [secret |-> Plain(Fernet_generate_key(n)), locked |-> FALSE, hash |-> None,
   secrethash |-> blake2b(Fernet_generate_key(n))]

\* What db_keys_set returns once the file was written
SetReturn(sk, fs) == IF ChmodRaises(fs) THEN EmptyDict ELSE RetDict(sk)

\* db_keys_set(secretkey, newkey): n is the index of the secret generate_key
\* returns; the result holds the return value and the key file afterwards
db_keys_set(kf, perm, secretkey, newkey, n, fs) ==
  LET sk == IF newkey THEN NewKeyRecord(n) ELSE secretkey
  IN IF WriteRaises(fs)
     THEN [ret |-> EmptyDict, file |-> kf, perm |-> perm]
     ELSE [ret |-> SetReturn(sk, fs), file |-> sk, perm |-> Chmodded(perm, fs)]

\* ------------------------------------------------------------- db_keys_get
\* The getpass() loop of db_keys_get: the pass phrase it ends with.
\* attempts is the number of prompts already answered.
RECURSIVE PromptLoop(_, _, _)
PromptLoop(script, hash, attempts) ==
  LET a == attempts + 1
      passphrase == script[a]
      getit == IF hash = blake2b(passphrase) THEN FALSE ELSE ~(a > PromptLimit)
  IN IF getit THEN PromptLoop(script, hash, a) ELSE passphrase

\* The record a locked key is turned into once its secret is decrypted
UnlockedMutKeepsToken(secretkey, usepass) == [secretkey EXCEPT !.locked = FALSE]
Unlocked(secretkey, usepass) ==
  [secretkey EXCEPT !.secret = Plain(decrypt(password_to_key(usepass), secretkey.secret)),
                    !.locked = FALSE]

\* The key file after db_keys_get unlocked its in-memory copy: pickle.load
\* returned a copy, and db_keys_get writes nothing back
AfterTempUnlockMutPersist(kf, secretkey) == secretkey
AfterTempUnlock(kf, secretkey) == kf

\* db_keys_get on a locked key, once the pass phrase to try is known:
\* decrypt the in-memory copy with it, or fail with InvalidToken
TempUnlock(kf, perm, passphrase) ==
  IF CanDecrypt(password_to_key(passphrase), kf.secret)
  THEN [ret |-> RetDict(Unlocked(kf, passphrase)),
        file |-> AfterTempUnlock(kf, Unlocked(kf, passphrase)),
        perm |-> perm, gen |-> 0, pass |-> passphrase, setret |-> NoCall]
  ELSE [ret |-> Raise("InvalidToken"), file |-> kf, perm |-> perm, gen |-> 0,
        pass |-> passphrase, setret |-> NoCall]

\* db_keys_get(password, prompt=True)
db_keys_get(kf, perm, password, script, n, fs) ==
  IF kf = NoFile
  THEN \* FileNotFoundError: create a new key
       LET r == db_keys_set(kf, perm, NewKeyRecord(n), TRUE, n, fs)
       IN [ret |-> r.ret, file |-> r.file, perm |-> r.perm, gen |-> 1, pass |-> None,
           setret |-> r.ret]
  ELSE IF kf.locked
  THEN Let(IF Truthy(password) THEN password ELSE PromptLoop(script, kf.hash, 0),
           LAMBDA passphrase : TempUnlock(kf, perm, passphrase))
  ELSE [ret |-> RetDict(kf), file |-> kf, perm |-> perm, gen |-> 0, pass |-> None,
        setret |-> NoCall]

\* ------------------------------------------------------------ db_keys_lock
\* The record db_keys_lock saves for pass phrase usepass
Locked(secretkey, usepass, iv) ==
  [secretkey EXCEPT !.secret = encrypt(password_to_key(usepass), secretkey.secret.msg, iv),
                    !.locked = TRUE,
                    !.hash = blake2b(usepass)]

\* db_keys_lock(passphrase); p1, p2 are what the user types at the two prompts
db_keys_lock(kf, perm, passphrase, p1, p2, iv, fs) ==
  IF kf = NoFile
  THEN [ret |-> RetFalse, msg |-> "Error locking secret key content",
        file |-> kf, perm |-> perm, pass |-> None, setret |-> NoCall]
  ELSE IF kf.locked
  THEN [ret |-> RetTrue, msg |-> "Secret key file is already locked",
        file |-> kf, perm |-> perm, pass |-> None, setret |-> NoCall]
  ELSE LET usepass == IF Truthy(passphrase) THEN passphrase ELSE p1
       IN IF ~Truthy(passphrase) /\ p1 # p2
          THEN [ret |-> RetFalse, msg |-> "Pass phrase mismatch, secret key still unlocked",
                file |-> kf, perm |-> perm, pass |-> usepass, setret |-> NoCall]
          ELSE LET sk == IF usepass # "" THEN Locked(kf, usepass, iv) ELSE kf
                   r == db_keys_set(kf, perm, sk, FALSE, 0, fs)
               IN [ret |-> RetTrue, msg |-> "Secret key successfully locked",
                   file |-> r.file, perm |-> r.perm, pass |-> usepass,
                   setret |-> r.ret]

\* ---------------------------------------------------------- db_keys_unlock
\* db_keys_unlock(passphrase); p1 is what the user types at the prompt
db_keys_unlock(kf, perm, passphrase, p1, fs) ==
  IF kf = NoFile
  THEN [ret |-> RetFalse, msg |-> "Error locking secret key content",
        file |-> kf, perm |-> perm, pass |-> None, setret |-> NoCall]
  ELSE IF ~kf.locked
  THEN [ret |-> RetTrue, msg |-> "Secret key file is already unlocked",
        file |-> kf, perm |-> perm, pass |-> None, setret |-> NoCall]
  ELSE LET usepass == IF Truthy(passphrase) THEN passphrase ELSE p1
       IN IF usepass # ""
          THEN IF kf.hash = blake2b(usepass)
               THEN IF CanDecrypt(password_to_key(usepass), kf.secret)
                    THEN LET r == db_keys_set(kf, perm, Unlocked(kf, usepass), FALSE, 0, fs)
                         IN [ret |-> RetTrue, msg |-> "Secret key successfully unlocked",
                             file |-> r.file, perm |-> r.perm, pass |-> usepass,
                   setret |-> r.ret]
                    ELSE \* InvalidToken, caught by "except Exception"
                         [ret |-> RetFalse, msg |-> "Error locking secret key content",
                          file |-> kf, perm |-> perm, pass |-> usepass, setret |-> NoCall]
               ELSE [ret |-> RetFalse,
                     msg |-> "Pass phrase did not match, secret key remains locked",
                     file |-> kf, perm |-> perm, pass |-> usepass, setret |-> NoCall]
          ELSE [ret |-> RetTrue, msg |-> "Secret key successfully unlocked",
                file |-> kf, perm |-> perm, pass |-> usepass, setret |-> NoCall]

\* -------------------------------------------------------- db_load_settings
\* The settings db_load_settings returns once the key matched
LoadedMutKeepsToken(settings, keys) == settings
Loaded(settings, keys) ==
  [settings EXCEPT !.pwd = Plain(decrypt(FernetKey(keys.secret.msg), settings.pwd))]

\* db_load_settings after keys = db_keys_get(password) returned or raised g.ret
LoadWith(g, files, fname) ==
  LET settings == ReadFile(files, fname)
      ret ==
        IF g.ret.k = "raise" THEN g.ret
        ELSE IF settings = NoFile THEN RetNone
        ELSE IF g.ret # EmptyDict
        THEN IF settings.secrethash = g.ret.v.secrethash
             THEN IF CanDecrypt(FernetKey(g.ret.v.secret.msg), settings.pwd)
                  THEN RetDict(Loaded(settings, g.ret.v))
                  ELSE RetNone
             ELSE RetNone
        ELSE RetDict(settings)
  IN [ret |-> ret, file |-> g.file, perm |-> g.perm, gen |-> g.gen, pass |-> g.pass,
      fname |-> fname, setret |-> g.setret]

\* db_load_settings(database, hostname, environment, password)
db_load_settings(kf, perm, files, database, hostname, environment, password, script, n, fs) ==
  Let(db_keys_get(kf, perm, password, script, n, fs),
      LAMBDA g : LoadWith(g, files, SettingsFileName(environment, hostname, database)))

\* -------------------------------------------------------- db_save_settings
\* The record db_save_settings pickles
ToSaveMutPlaintext(settings, keys, iv) == [settings EXCEPT !.secrethash = keys.secrethash]
ToSave(settings, keys, iv) ==
  [settings EXCEPT !.secrethash = keys.secrethash,
                   !.pwd = encrypt(FernetKey(keys.secret.msg), settings.pwd.msg, iv)]

\* What db_save_settings returns once the file was written
SaveReturnMutIgnoreChmod(fs) == RetTrue
SaveReturn(fs) == IF ChmodRaises(fs) THEN RetFalse ELSE RetTrue

\* db_save_settings after keys = db_keys_get(password) returned or raised g.ret
SaveWith(g, files, perms, settings, iv, n, fsK, fsS) ==
  LET fname == SettingsFileName(settings.environment, settings.hostname, settings.database)
      same == [file |-> g.file, perm |-> g.perm, gen |-> g.gen, pass |-> g.pass,
               fname |-> fname, setfiles |-> files, setperm |-> perms]
  IN IF g.ret.k = "raise" THEN same @@ [ret |-> g.ret, setret |-> g.setret]
     ELSE LET again == g.ret = EmptyDict
              s == IF again
                   THEN db_keys_set(g.file, g.perm, NewKeyRecord(n + g.gen), TRUE, n + g.gen, fsK)
                   ELSE [ret |-> g.ret, file |-> g.file, perm |-> g.perm]
              k == [file |-> s.file, perm |-> s.perm,
                    setret |-> IF again THEN s.ret ELSE g.setret,
                    gen |-> IF again THEN g.gen + 1 ELSE g.gen, pass |-> g.pass,
                    fname |-> fname, regen |-> IF again THEN g.file ELSE NoFile]
          IN IF s.ret = EmptyDict
             THEN k @@ [ret |-> Raise("KeyError"), setfiles |-> files, setperm |-> perms]
             ELSE IF WriteRaises(fsS)
             THEN k @@ [ret |-> IF fsS = "write:PermissionError" THEN RetFalse
                                ELSE Raise("FileNotFoundError"),
                        setfiles |-> files, setperm |-> perms]
             ELSE k @@ [ret |-> SaveReturn(fsS),
                        setfiles |-> WriteFile(files, fname, ToSave(settings, s.ret.v, iv)),
                        setperm |-> WriteFile(perms, fname, Chmodded(PermOf(perms, fname), fsS))]

\* db_save_settings(settings, password)
db_save_settings(kf, perm, files, perms, settings, password, script, iv, n, fsK, fsS) ==
  Let(db_keys_get(kf, perm, password, script, n, fsK),
      LAMBDA g : SaveWith(g, files, perms, settings, iv, n, fsK, fsS))

\* ------------------------------------------------------------------ state
NoSnap == [taken |-> FALSE]
NoSave == [made |-> FALSE]
EmptyDir == [n \in {} |-> NoFile]

\* The record of a library call: its name, its pass phrase argument (arg), the
\* pass phrase it ended up using (pass), what it returned and printed, the
\* <<environment, hostname, database>> it was about, what its last
\* db_keys_set call returned, and the key file that was there when
\* db_save_settings made a new key after db_keys_get returned none (regen)
Call(op, arg, pass, r, triple) ==
  [op |-> op, arg |-> arg, pass |-> pass, ret |-> r.ret,
   msg |-> IF "msg" \in DOMAIN r THEN r.msg ELSE "",
   triple |-> triple, setret |-> r.setret,
   regen |-> IF "regen" \in DOMAIN r THEN r.regen ELSE NoFile]

\* The operation that changed the key file last
KeyChanged(op, r) ==
  IF r.file = keyfile THEN keyChange ELSE [op |-> op, pass |-> r.pass]

\* No command is running
NoHandle == [open |-> FALSE]
NoLog == [called |-> FALSE]
CmdInit ==
  /\ cpc = "idle"
  /\ ccmd = [name |-> "none"]
  /\ clocal = [settings |-> RetNone, doit |-> FALSE]
  /\ hdbc = NoHandle
  /\ cout = {}
  /\ cshown = <<>>
  /\ cexit = [status |-> 0, exc |-> "none"]
  /\ connectLog = NoLog
  /\ saveLog = NoLog
  /\ loadLog = NoLog

\* No import_table call is running
ImpInit ==
  /\ ipc = "idle"
  /\ icall = [schema |-> <<>>, tbname |-> <<>>, headers_expected |-> TRUE, before |-> <<>>]
  /\ itable = <<>>
  /\ icsv = <<>>
  /\ irow = 0
  /\ istmt = <<>>
  /\ icount = [records |-> 0, table_rows |-> 0, first |-> TRUE]
  /\ ievents = <<>>
  /\ iret = NoCall

LibInit ==
  /\ keyfile = NoFile
  /\ keyperm = "absent"
  /\ keysGenerated = 0
  /\ setfiles = EmptyDir
  /\ setperm = EmptyDir
  /\ fsKey \in KeyFsOutcomes
  /\ fsSettings \in SettingsFsOutcomes
  /\ fsKey = "ok" \/ fsSettings = "ok"
  /\ last = [op |-> "init", arg |-> None, pass |-> None, ret |-> RetNone, msg |-> "",
             triple |-> <<>>, setret |-> NoCall, regen |-> NoFile]
  /\ lockSnap = NoSnap
  /\ saved = NoSave
  /\ keyChange = [op |-> "none", pass |-> None]

Init == LibInit /\ CmdInit /\ ImpInit

\* ---------------------------------------------------------------- actions
KeysGet(password, script) ==
  \E r \in {db_keys_get(keyfile, keyperm, password, script, keysGenerated + 1, fsKey)} :
     /\ keysGenerated + r.gen <= MaxKeys
     /\ keyfile' = r.file
     /\ keyperm' = r.perm
     /\ keysGenerated' = keysGenerated + r.gen
     /\ last' = Call("db_keys_get", None, r.pass, r, <<>>)
     /\ keyChange' = KeyChanged("generate", r)
     /\ lockSnap' = NoSnap
     /\ saved' = IF r.gen > 0 THEN NoSave ELSE saved
     /\ UNCHANGED <<setfiles, setperm, fsKey, fsSettings, cmdvars, impvars>>

\* lockSnap remembers the key file a db_keys_lock(p) with a non-empty argument
\* found unlocked, until the call after the next one
KeysLock(passphrase, p1, p2, iv) ==
  \E r \in {db_keys_lock(keyfile, keyperm, passphrase, p1, p2, iv, fsKey)} :
     /\ keyfile' = r.file
     /\ keyperm' = r.perm
     /\ last' = Call("db_keys_lock", passphrase, None, r, <<>>)
     /\ keyChange' = KeyChanged("db_keys_lock", r)
     /\ lockSnap' = IF keyfile # NoFile /\ ~keyfile.locked /\ Truthy(passphrase)
                    THEN [taken |-> TRUE, pre |-> keyfile, pass |-> passphrase, age |-> 0]
                    ELSE NoSnap
     /\ UNCHANGED <<keysGenerated, setfiles, setperm, fsKey, fsSettings, saved, cmdvars,
                    impvars>>

KeysUnlock(passphrase, p1) ==
  \E r \in {db_keys_unlock(keyfile, keyperm, passphrase, p1, fsKey)} :
     /\ keyfile' = r.file
     /\ keyperm' = r.perm
     /\ last' = Call("db_keys_unlock", passphrase, None, r, <<>>)
     /\ keyChange' = KeyChanged("db_keys_unlock", r)
     /\ lockSnap' = IF lockSnap # NoSnap /\ lockSnap.age = 0 /\ lockSnap.pass = passphrase
                    THEN [lockSnap EXCEPT !.age = 1]
                    ELSE NoSnap
     /\ UNCHANGED <<keysGenerated, setfiles, setperm, fsKey, fsSettings, saved, cmdvars,
                    impvars>>

LoadSettings(database, hostname, environment, password, script) ==
  \E r \in {db_load_settings(keyfile, keyperm, setfiles, database, hostname, environment,
                            password, script, keysGenerated + 1, fsKey)} :
     /\ keysGenerated + r.gen <= MaxKeys
     /\ keyfile' = r.file
     /\ keyperm' = r.perm
     /\ keysGenerated' = keysGenerated + r.gen
     /\ last' = Call("db_load_settings", None, r.pass, r, <<environment, hostname, database>>)
     /\ keyChange' = KeyChanged("generate", r)
     /\ lockSnap' = NoSnap
     /\ saved' = IF r.gen > 0 THEN NoSave ELSE saved
     /\ UNCHANGED <<setfiles, setperm, fsKey, fsSettings, cmdvars, impvars>>

\* saved remembers the settings given to a db_save_settings that returned True,
\* until the next db_save_settings or key generation
SaveSettings(settings, password, script, iv) ==
  \E r \in {db_save_settings(keyfile, keyperm, setfiles, setperm, settings, password, script,
                            iv, keysGenerated + 1, fsKey, fsSettings)} :
     /\ keysGenerated + r.gen <= MaxKeys
     /\ keyfile' = r.file
     /\ keyperm' = r.perm
     /\ keysGenerated' = keysGenerated + r.gen
     /\ setfiles' = r.setfiles
     /\ setperm' = r.setperm
     /\ last' = Call("db_save_settings", None, None, r,
                     <<settings.environment, settings.hostname, settings.database>>)
     /\ keyChange' = KeyChanged("generate", r)
     /\ lockSnap' = NoSnap
     /\ saved' = IF r.ret = RetTrue
                 THEN [made |-> TRUE, settings |-> settings, secrethash |-> r.file.secrethash]
                 ELSE NoSave
     /\ UNCHANGED <<fsKey, fsSettings, cmdvars, impvars>>

Next ==
  \/ \E c \in Credentials : KeysGet(c.password, c.script)
  \/ \E i \in LockInputs, iv \in 1..MaxNonce : KeysLock(i.passphrase, i.p1, i.p2, iv)
  \/ \E i \in UnlockInputs : KeysUnlock(i.passphrase, i.p1)
  \/ \E database \in Databases, hostname \in Hostnames, environment \in Environments,
        c \in Credentials :
       LoadSettings(database, hostname, environment, c.password, c.script)
  \/ \E settings \in SettingsInputs, c \in Credentials, iv \in 1..MaxNonce :
       SaveSettings(settings, c.password, c.script, iv)

Spec == Init /\ [][Next]_vars

\* -------------------------------------------------------------- db_connect
\* The connection string db_connect builds from the settings
Dsn(settings) ==
  [database |-> settings.database, hostname |-> settings.hostname, port |-> settings.port,
   uid |-> settings.uid, pwd |-> settings.pwd,
   ssl |-> Upper(settings.security) = <<"SSL">>,
   servercert |-> IF Upper(settings.security) = <<"SSL">> THEN settings.servercert ELSE ""]

\* db_connected(): _hdbc is set and ibm_db.active(_hdbc)
db_connected(h) == h # NoHandle /\ h.active

\* db_connect(settings): arg is RetNone when it is called without settings;
\* ok says whether ibm_db.connect succeeds
db_connect(h, arg, ok) ==
  IF h # NoHandle /\ db_connected(h) THEN [hdbc |-> h, exc |-> "none", msg |-> ""]
  ELSE IF arg = RetNone THEN [hdbc |-> h, exc |-> "TypeError", msg |-> ""]
  ELSE IF arg = EmptyDict THEN [hdbc |-> h, exc |-> "KeyError", msg |-> ""]
  ELSE IF arg.v.database = <<>>
  THEN [hdbc |-> NoHandle, exc |-> "none", msg |-> "Settings are incorrect"]
  ELSE IF ok
  THEN [hdbc |-> [open |-> TRUE, active |-> TRUE, dsn |-> Dsn(arg.v)], exc |-> "none",
        msg |-> ""]
  ELSE [hdbc |-> NoHandle, exc |-> "none", msg |-> "ibm_db.connect failed"]

\* db_disconnect(): ibm_db.close(_hdbc)
db_disconnect(h) == IF h # NoHandle THEN [h EXCEPT !.active = FALSE] ELSE h

\* -------------------------------------------------------- db_connect_prompt
DefaultSettings == Settings(<<"sample">>, <<"localhost">>, dev, "password")
\* The answers to the prompts of db_connect_prompt; an empty answer keeps the
\* default and "." cancels
NoAnswer ==
  [database |-> <<>>, hostname |-> <<>>, protocol |-> <<>>, port |-> <<>>, uid |-> <<>>,
   pwd |-> "", security |-> <<>>, servercert |-> ""]
PromptAnswers ==
  { NoAnswer,
    [NoAnswer EXCEPT !.pwd = "tiger"],
    [NoAnswer EXCEPT !.pwd = "."],
    [NoAnswer EXCEPT !.security = <<"SSL">>] }

\* db_connect_prompt(database, hostname); certReadable says whether the
\* certificate file named at the prompt is a readable file
db_connect_prompt(database, hostname, ans, certReadable) ==
  LET s0 == [DefaultSettings EXCEPT
               !.database = IF database # <<>> THEN database ELSE @,
               !.hostname = IF hostname # <<>> THEN hostname ELSE @]
      text(k) == IF ans[k] = <<>> THEN s0[k] ELSE Lower(ans[k])
      x == IF Lower(ans.security) = <<>> THEN s0.security ELSE Lower(ans.security)
      y == IF ans.servercert = "" THEN s0.servercert ELSE ans.servercert
      cancelled ==
        \/ \E k \in {"database", "hostname", "protocol", "port", "uid"} : ans[k] = <<".">>
        \/ ans.pwd = "."
        \/ x = <<".">>
        \/ (x = <<"ssl">> /\ (y = "." \/ ~certReadable))
  IN IF cancelled THEN RetNone
     ELSE RetDict([s0 EXCEPT !.database = text("database"),
                             !.hostname = text("hostname"),
                             !.protocol = text("protocol"),
                             !.port = text("port"),
                             !.uid = text("uid"),
                             !.pwd = IF ans.pwd = "" THEN @ ELSE Plain(ans.pwd),
                             !.security = x,
                             !.servercert = IF x = <<"ssl">> THEN y ELSE ""])

\* --------------------------------------------------------- db_show_settings
\* The keys of a settings dictionary, in the order of _default_settings
SettingsKeys ==
  <<"database", "hostname", "protocol", "port", "uid", "pwd", "environment", "security",
    "servercert", "secrethash">>
\* The line printed for key k
ShowLineMutShowsPwd(settings, k) == k \o ": " \o ToString(settings[k])
ShowLine(settings, k) ==
  IF k = "pwd"
  THEN IF settings.pwd # Plain("") THEN "password: [not displayed]"
       ELSE "password: [no password]"
  ELSE k \o ": " \o ToString(settings[k])
\* db_show_settings(settings): the lines it prints
db_show_settings(settings) ==
  IF settings.k = "dict" /\ settings # EmptyDict
  THEN <<"Credentials for " \o ToString(Upper(settings.v.database))
           \o " on " \o ToString(Upper(settings.v.hostname))
           \o " for environment " \o ToString(Upper(settings.v.environment))>>
         \o [i \in 1..Len(SettingsKeys) |-> ShowLine(settings.v, SettingsKeys[i])]
  ELSE <<"Settings have not been loaded">>

\* ----------------------------------------------------------- db_credentials
CmdDatabases == {<<"S">>}
CmdHostnames == {<<"h">>}
CmdEnvironments == {<<"D", "E", "V">>, <<"q", "a">>}
CmdPasswords == {None, "p"}
LockPrompts == {[p1 |-> "", p2 |-> ""], [p1 |-> "p", p2 |-> "p"], [p1 |-> "p", p2 |-> "q"]}

Exit(status, exc) == cpc' = "exit" /\ cexit' = [status |-> status, exc |-> exc]

\* A new process: module globals as at import
Fresh ==
  /\ clocal' = [settings |-> RetNone, doit |-> FALSE]
  /\ hdbc' = NoHandle
  /\ cout' = {}
  /\ cshown' = <<>>
  /\ connectLog' = NoLog
  /\ saveLog' = NoLog
  /\ loadLog' = NoLog

\* The key file after a library call made by a command
KeyAfter(r) ==
  /\ keyfile' = r.file
  /\ keyperm' = r.perm

\* "if db_connected():" before db_save_settings
SaveGuardMutAlways(h) == TRUE
SaveGuard(h) == db_connected(h)

CredStart(action, database, hostname, environment, password, show) ==
  /\ cpc \in {"idle", "exit"}
  /\ ccmd' = [name |-> "db_credentials", action |-> action, database |-> Lower(database),
              hostname |-> Lower(hostname), environment |-> Lower(environment),
              password |-> password, show |-> show]
  /\ cpc' = CASE action = "lock" -> "lock"
              [] action = "unlock" -> "unlock"
              [] action = "reset" -> "reset_prompt"
              [] action = "verify" -> "verify_load"
  /\ cexit' = [status |-> 0, exc |-> "none"]
  /\ Fresh
  /\ UNCHANGED <<libvars, impvars>>

CredLock(p1, p2, iv) ==
  /\ cpc = "lock"
  /\ \E r \in {db_keys_lock(keyfile, keyperm, ccmd.password, p1, p2, iv, fsKey)} :
       /\ KeyAfter(r)
       /\ cout' = cout \cup {r.msg}
  /\ Exit(0, "none")
  /\ UNCHANGED <<keysGenerated, setfiles, setperm, fsKey, fsSettings, last, lockSnap, saved,
                 keyChange, ccmd, clocal, hdbc, connectLog, saveLog, loadLog, cshown, impvars>>

CredUnlock(p1) ==
  /\ cpc = "unlock"
  /\ \E r \in {db_keys_unlock(keyfile, keyperm, ccmd.password, p1, fsKey)} :
       /\ KeyAfter(r)
       /\ cout' = cout \cup {r.msg}
  /\ Exit(0, "none")
  /\ UNCHANGED <<keysGenerated, setfiles, setperm, fsKey, fsSettings, last, lockSnap, saved,
                 keyChange, ccmd, clocal, hdbc, connectLog, saveLog, loadLog, cshown, impvars>>

\* reset: settings = db_connect_prompt(...); settings["environment"] = use_environment
ResetPrompt(ans, certReadable) ==
  /\ cpc = "reset_prompt"
  /\ \E r \in {db_connect_prompt(ccmd.database, ccmd.hostname, ans, certReadable)} :
       IF r = RetNone
       THEN /\ Exit(1, "TypeError")
            /\ UNCHANGED clocal
       ELSE /\ clocal' = [clocal EXCEPT
                            !.settings = RetDict([r.v EXCEPT !.environment = ccmd.environment])]
            /\ cpc' = "reset_connect"
            /\ UNCHANGED cexit
  /\ cout' = cout \cup {"Reset requested, enter new credentials"}
  /\ UNCHANGED <<libvars, ccmd, hdbc, connectLog, saveLog, loadLog, cshown, impvars>>

\* db_connect(settings) of a command, and the "if db_connected():" after it
Connect(ok, then, else) ==
  \E r \in {db_connect(hdbc, clocal.settings, ok)} :
    /\ hdbc' = r.hdbc
    /\ connectLog' = [called |-> TRUE, arg |-> clocal.settings,
                      connected |-> db_connected(r.hdbc)]
    /\ IF r.exc # "none" THEN Exit(1, r.exc)
       ELSE /\ cpc' = IF SaveGuard(r.hdbc) THEN then ELSE else
            /\ UNCHANGED cexit

\* db_save_settings(settings, password) of a command
Save(script, iv, then) ==
  \E r \in {db_save_settings(keyfile, keyperm, setfiles, setperm, clocal.settings.v,
                             ccmd.password, script, iv, keysGenerated + 1, fsKey, fsSettings)} :
    /\ keysGenerated + r.gen <= MaxKeys
    /\ KeyAfter(r)
    /\ keysGenerated' = keysGenerated + r.gen
    /\ setfiles' = r.setfiles
    /\ setperm' = r.setperm
    /\ saveLog' = [called |-> TRUE, settings |-> clocal.settings, wrote |-> setfiles' # setfiles]
    /\ IF r.ret.k = "raise"
       THEN /\ Exit(1, r.ret.exc)
            /\ UNCHANGED cout
       ELSE /\ cout' = cout \cup {IF r.ret = RetTrue THEN "Credentials have been saved"
                                  ELSE "Credentials have not been saved"}
            /\ then

ResetConnect(ok) ==
  /\ cpc = "reset_connect"
  /\ Connect(ok, "reset_save", "reset_end")
  /\ UNCHANGED <<libvars, ccmd, clocal, cout, saveLog, loadLog, cshown, impvars>>

ResetSave(script, iv) ==
  /\ cpc = "reset_save"
  /\ Save(script, iv, cpc' = "reset_end" /\ UNCHANGED cexit)
  /\ UNCHANGED <<fsKey, fsSettings, last, lockSnap, saved, keyChange, ccmd, clocal, hdbc,
                 connectLog, loadLog, cshown, impvars>>

\* "if show: db_show_settings(settings)" of reset and verify
Show ==
  cshown' = IF ccmd.show THEN cshown \o db_show_settings(clocal.settings) ELSE cshown

\* reset ends without a db_disconnect
ResetEnd ==
  /\ cpc = "reset_end"
  /\ Show
  /\ Exit(0, "none")
  /\ UNCHANGED <<libvars, ccmd, clocal, hdbc, cout, connectLog, saveLog, loadLog, impvars>>

\* verify: settings = db_load_settings(use_database, use_hostname, use_environment, password)
VerifyLoad(script) ==
  /\ cpc = "verify_load"
  /\ \E r \in {db_load_settings(keyfile, keyperm, setfiles, ccmd.database, ccmd.hostname,
                                ccmd.environment, ccmd.password, script, keysGenerated + 1,
                                fsKey)} :
       /\ keysGenerated + r.gen <= MaxKeys
       /\ KeyAfter(r)
       /\ keysGenerated' = keysGenerated + r.gen
       /\ loadLog' = [called |-> TRUE, ret |-> r.ret]
       /\ IF r.ret.k = "raise"
          THEN /\ Exit(1, r.ret.exc)
               /\ UNCHANGED <<clocal, cout>>
          ELSE /\ clocal' = [clocal EXCEPT !.settings = r.ret]
               /\ cpc' = IF r.ret.k = "dict" /\ r.ret # EmptyDict
                         THEN "verify_connect" ELSE "verify_prompt"
               /\ cout' = IF r.ret.k = "dict" /\ r.ret # EmptyDict THEN cout
                          ELSE cout \cup {"No saved credentials"}
               /\ UNCHANGED cexit
  /\ UNCHANGED <<setfiles, setperm, fsKey, fsSettings, last, lockSnap, saved, keyChange, ccmd,
                 hdbc, connectLog, saveLog, cshown, impvars>>

\* verify, settings loaded: db_connect(settings); doit = not db_connected()
VerifyConnect(ok) ==
  /\ cpc = "verify_connect"
  /\ \E r \in {db_connect(hdbc, clocal.settings, ok)} :
       /\ hdbc' = r.hdbc
       /\ connectLog' = [called |-> TRUE, arg |-> clocal.settings,
                         connected |-> db_connected(r.hdbc)]
       /\ IF r.exc # "none"
          THEN /\ Exit(1, r.exc)
               /\ UNCHANGED <<clocal, cout>>
          ELSE /\ clocal' = [clocal EXCEPT !.doit = ~db_connected(r.hdbc)]
               /\ cout' = cout \cup {IF db_connected(r.hdbc)
                                     THEN "Connection credentials are correct"
                                     ELSE "Current credentials are incorrect, enter new credentials"}
               /\ cpc' = "verify_doit"
               /\ UNCHANGED cexit
  /\ UNCHANGED <<libvars, ccmd, saveLog, loadLog, cshown, impvars>>

\* verify, nothing loaded: settings = db_connect_prompt(use_database, use_hostname)
VerifyPrompt(ans, certReadable) ==
  /\ cpc = "verify_prompt"
  /\ \E r \in {db_connect_prompt(ccmd.database, ccmd.hostname, ans, certReadable)} :
       /\ clocal' = [settings |-> r, doit |-> r # RetNone]
       /\ IF r = RetNone
          THEN /\ cout' = cout \cup {"Connection attempt cancelled at user request"}
               /\ Exit(1, "none")
          ELSE /\ cpc' = "verify_doit"
               /\ UNCHANGED <<cout, cexit>>
  /\ UNCHANGED <<libvars, ccmd, hdbc, connectLog, saveLog, loadLog, cshown, impvars>>

\* verify: "if doit: db_connect(settings)"
VerifyReconnect(ok) ==
  /\ cpc = "verify_doit"
  /\ IF clocal.doit
     THEN Connect(ok, "verify_save", "verify_end")
     ELSE /\ cpc' = "verify_end"
          /\ UNCHANGED <<hdbc, connectLog, cexit>>
  /\ UNCHANGED <<libvars, ccmd, clocal, cout, saveLog, loadLog, cshown, impvars>>

VerifySave(script, iv) ==
  /\ cpc = "verify_save"
  /\ Save(script, iv, cpc' = "verify_end" /\ UNCHANGED cexit)
  /\ UNCHANGED <<fsKey, fsSettings, last, lockSnap, saved, keyChange, ccmd, clocal, hdbc,
                 connectLog, loadLog, cshown, impvars>>

\* verify: db_disconnect()
VerifyEnd ==
  /\ cpc = "verify_end"
  /\ Show
  /\ hdbc' = db_disconnect(hdbc)
  /\ Exit(0, "none")
  /\ UNCHANGED <<libvars, ccmd, clocal, cout, connectLog, saveLog, loadLog, impvars>>

\* ---------------------------------------------------- db_export, db_import
\* db_export / db_import up to the folder check; folderOk says whether the
\* folder exists (db_import) or could be created (db_export)
TransferStart(name, database, hostname, environment, password, folderOk) ==
  /\ cpc \in {"idle", "exit"}
  /\ ccmd' = [name |-> name, action |-> "", database |-> database, hostname |-> hostname,
              environment |-> environment, password |-> password, show |-> FALSE]
  /\ Fresh
  /\ IF folderOk
     THEN /\ cpc' = "transfer_load"
          /\ cexit' = [status |-> 0, exc |-> "none"]
     ELSE Exit(1, "none")
  /\ UNCHANGED <<libvars, impvars>>

\* db_load_settings(database, hostname, environment, password): the settings
\* it returns are not kept
TransferLoad(script) ==
  /\ cpc = "transfer_load"
  /\ \E r \in {db_load_settings(keyfile, keyperm, setfiles, ccmd.database, ccmd.hostname,
                                ccmd.environment, ccmd.password, script, keysGenerated + 1,
                                fsKey)} :
       /\ keysGenerated + r.gen <= MaxKeys
       /\ KeyAfter(r)
       /\ keysGenerated' = keysGenerated + r.gen
       /\ loadLog' = [called |-> TRUE, ret |-> r.ret]
       /\ IF r.ret.k = "raise"
          THEN Exit(1, r.ret.exc)
          ELSE /\ cpc' = "transfer_connect"
               /\ UNCHANGED cexit
  /\ UNCHANGED <<setfiles, setperm, fsKey, fsSettings, last, lockSnap, saved, keyChange, ccmd,
                 clocal, hdbc, cout, connectLog, saveLog, cshown, impvars>>

\* What db_export / db_import pass to db_connect: nothing
TransferConnectArg == RetNone

\* _hdbc = db_connect(); if not db_connected(): print(...); sys.exit(1).
\* From "transfer_main" on the tables are processed.
TransferConnect(ok) ==
  /\ cpc = "transfer_connect"
  /\ \E r \in {db_connect(hdbc, TransferConnectArg, ok)} :
       /\ hdbc' = r.hdbc
       /\ connectLog' = [called |-> TRUE, arg |-> TransferConnectArg,
                         connected |-> db_connected(r.hdbc)]
       /\ IF r.exc # "none"
          THEN /\ Exit(1, r.exc)
               /\ UNCHANGED cout
          ELSE IF ~db_connected(r.hdbc)
          THEN /\ cout' = cout \cup {"Database connection failed, quitting."}
               /\ Exit(1, "none")
          ELSE /\ cpc' = "transfer_main"
               /\ UNCHANGED <<cout, cexit>>
  /\ UNCHANGED <<libvars, ccmd, clocal, saveLog, loadLog, cshown, impvars>>

NextCmd ==
  \/ \E action \in {"verify", "lock", "unlock", "reset"}, database \in CmdDatabases,
        hostname \in CmdHostnames, environment \in CmdEnvironments, password \in CmdPasswords,
        show \in BOOLEAN :
       CredStart(action, database, hostname, environment, password, show)
  \/ \E a \in LockPrompts, iv \in 1..MaxNonce : CredLock(a.p1, a.p2, iv)
  \/ \E p1 \in PassPhrases : CredUnlock(p1)
  \/ \E ans \in PromptAnswers, certReadable \in BOOLEAN : ResetPrompt(ans, certReadable)
  \/ \E ok \in BOOLEAN : ResetConnect(ok)
  \/ \E script \in PromptScripts, iv \in 1..MaxNonce : ResetSave(script, iv)
  \/ ResetEnd
  \/ \E script \in PromptScripts : VerifyLoad(script)
  \/ \E ok \in BOOLEAN : VerifyConnect(ok)
  \/ \E ans \in PromptAnswers, certReadable \in BOOLEAN : VerifyPrompt(ans, certReadable)
  \/ \E ok \in BOOLEAN : VerifyReconnect(ok)
  \/ \E script \in PromptScripts, iv \in 1..MaxNonce : VerifySave(script, iv)
  \/ VerifyEnd
  \/ \E name \in {"db_export", "db_import"}, database \in CmdDatabases,
        hostname \in CmdHostnames, environment \in CmdEnvironments, password \in CmdPasswords,
        folderOk \in BOOLEAN :
       TransferStart(name, database, hostname, environment, password, folderOk)
  \/ \E script \in PromptScripts : TransferLoad(script)
  \/ \E ok \in BOOLEAN : TransferConnect(ok)

\* The program as its commands run it, one process after the other
SpecCmd == Init /\ [][NextCmd]_vars

\* ------------------------------------------------------------ import_table
\* The rows csv.reader may hand out: a header row and data rows
HeaderRow == <<"ID", "NAME">>
RowValues == {HeaderRow, <<"1", "x">>, <<"2", "">>}
RECURSIVE SeqsUpTo(_, _)
SeqsUpTo(S, n) ==
  IF n = 0 THEN {<<>>}
  ELSE LET shorter == SeqsUpTo(S, n - 1)
       IN shorter \cup {Append(s, x) : s \in {q \in shorter : Len(q) = n - 1}, x \in S}
\* The CSV file of the table: missing, or up to MaxRows rows after the first
CsvFile(rows) == [exists |-> TRUE, rows |-> rows]
CsvFiles == {NoFile} \cup {CsvFile(rows) : rows \in SeqsUpTo(RowValues, MaxRows + 1)}
\* The schema and table names import_table is called with: table_list() gives
\* upper-case names, --table the name as typed
ImportSchemas == {<<"s">>}
ImportTables == {<<"T">>, <<"t">>}
\* filecsv = Path(_folder, schema.lower() + "-" + tbname.lower() + ".csv")
CsvPath(schema, tbname) == Lower(schema) \o <<"-">> \o Lower(tbname) \o <<".csv">>
\* The same name with the names as given
CsvPathAsGiven(schema, tbname) == schema \o <<"-">> \o tbname \o <<".csv">>
\* The file names of _folder
CsvNames ==
  {CsvPath(s, t) : s \in ImportSchemas, t \in ImportTables}
    \cup {CsvPathAsGiven(s, t) : s \in ImportSchemas, t \in ImportTables}
\* _folder: the file of the table under its lower-case name, and maybe a file
\* under another name
Folders ==
  {f \in [CsvNames -> CsvFiles] :
     \A n \in CsvNames :
       n \notin {CsvPath(s, t) : s \in ImportSchemas, t \in ImportTables}
         => f[n] \in {NoFile, CsvFile(<<HeaderRow>>)}}
\* A row of the table: the values by column
TableRow(columns, values) == [columns |-> columns, values |-> values]
InitialTables == {<<>>, <<TableRow(HeaderRow, <<"9", "old">>)>>}

\* The values import_table binds for a row: None for an empty field
Variables(row) == [i \in 1..Len(row) |-> IF row[i] = "" THEN None ELSE row[i]]

\* "if not filecsv.is_file(): ... return": where import_table goes next
AfterFileCheckMutNoCheck(csv) == "prepare"
AfterFileCheck(csv) == IF csv = NoFile THEN "return" ELSE "prepare"

\* The file import_table opens in the running call
filecsv == icsv[CsvPath(icall.schema, icall.tbname)]

ImportReturn(value) == ipc' = "return" /\ iret' = value

\* import_table(schema, tbname) is called with an open connection
ImportCall(schema, tbname, headers_expected) ==
  /\ ipc \in {"idle", "return"}
  /\ icall' = [schema |-> schema, tbname |-> tbname, headers_expected |-> headers_expected,
               before |-> itable]
  /\ ipc' = "check_file"
  /\ irow' = 0
  /\ istmt' = <<>>
  /\ icount' = [records |-> 0, table_rows |-> 0, first |-> TRUE]
  /\ ievents' = <<>>
  /\ iret' = NoCall
  /\ UNCHANGED <<libvars, cmdvars, itable, icsv>>

ImportCheckFile ==
  /\ ipc = "check_file"
  /\ ipc' = AfterFileCheck(icsv[CsvPath(icall.schema, icall.tbname)])
  /\ iret' = IF ipc' = "return" THEN RetNone ELSE iret
  /\ UNCHANGED <<libvars, cmdvars, icall, itable, icsv, irow, istmt, icount, ievents>>

\* stmt = ibm_db.prepare(_hdbc, "select * from ..."); tbcolumns = get_columns(stmt)
ImportPrepare(ok) ==
  /\ ipc = "prepare"
  /\ IF ok THEN ipc' = "delete" /\ UNCHANGED iret ELSE ImportReturn(RetFalse)
  /\ UNCHANGED <<libvars, cmdvars, icall, itable, icsv, irow, istmt, icount, ievents>>

\* ibm_db.exec_immediate(_hdbc, "delete from ...")
ImportDelete(ok) ==
  /\ ipc = "delete"
  /\ IF ok
     THEN /\ itable' = <<>>
          /\ ievents' = Append(ievents, "delete")
          /\ ipc' = "rows"
          /\ UNCHANGED iret
     ELSE /\ ImportReturn(RetFalse)
          /\ UNCHANGED <<itable, ievents>>
  /\ UNCHANGED <<libvars, cmdvars, icall, icsv, irow, istmt, icount>>

\* One turn of "for row in reader": the first row makes the INSERT statement,
\* every other row is bound to it and inserted
ImportRow(ok) ==
  /\ ipc = "rows"
  /\ irow < Len(filecsv.rows)
  /\ irow' = irow + 1
  /\ LET row == filecsv.rows[irow + 1]
     IN IF icount.first
        THEN /\ icount' = [icount EXCEPT !.records = @ + 1, !.first = FALSE]
             /\ UNCHANGED <<itable, ievents>>
             /\ IF ok
                THEN istmt' = row /\ UNCHANGED <<ipc, iret>>
                ELSE ImportReturn(RetFalse) /\ UNCHANGED istmt
        ELSE /\ UNCHANGED istmt
             /\ IF ok /\ Len(row) = Len(istmt)
                THEN /\ itable' = Append(itable, TableRow(istmt, Variables(row)))
                     /\ ievents' = Append(ievents, "insert")
                     /\ icount' = [icount EXCEPT !.records = @ + 1, !.table_rows = @ + 1]
                     /\ UNCHANGED <<ipc, iret>>
                ELSE /\ icount' = [icount EXCEPT !.records = @ + 1]
                     /\ ImportReturn(RetFalse)
                     /\ UNCHANGED <<itable, ievents>>
  /\ UNCHANGED <<libvars, cmdvars, icall, icsv>>

\* after the loop: ibm_db.free_stmt(stmt); return True
ImportFinish ==
  /\ ipc = "rows"
  /\ irow = Len(filecsv.rows)
  /\ ImportReturn(RetTrue)
  /\ UNCHANGED <<libvars, cmdvars, icall, itable, icsv, irow, istmt, icount, ievents>>

\* import_table starts from any table content and any file
InitImport ==
  /\ LibInit
  /\ fsKey = "ok"
  /\ fsSettings = "ok"
  /\ CmdInit
  /\ ipc = "idle"
  /\ icall = [schema |-> <<>>, tbname |-> <<>>, headers_expected |-> TRUE, before |-> <<>>]
  /\ itable \in InitialTables
  /\ icsv \in Folders
  /\ irow = 0
  /\ istmt = <<>>
  /\ icount = [records |-> 0, table_rows |-> 0, first |-> TRUE]
  /\ ievents = <<>>
  /\ iret = NoCall

NextImport ==
  \/ \E schema \in ImportSchemas, tbname \in ImportTables, headers_expected \in BOOLEAN :
       ImportCall(schema, tbname, headers_expected)
  \/ ImportCheckFile
  \/ \E ok \in BOOLEAN : ImportPrepare(ok)
  \/ \E ok \in BOOLEAN : ImportDelete(ok)
  \/ \E ok \in BOOLEAN : ImportRow(ok)
  \/ ImportFinish

SpecImport == InitImport /\ [][NextImport]_vars

\* ------------------------------------------------ names that contain "_"
\* <<environment, hostname, database>> triples, some with "_" in a name
KeyedTriples ==
  { <<<<"d">>, <<"h", "_", "s">>, <<"t">>>>,
    <<<<"d", "_", "h">>, <<"s">>, <<"t">>>>,
    <<<<"D">>, <<"h", "_", "s">>, <<"t">>>>,
    <<<<"d">>, <<"h">>, <<"t">>>> }
\* The password entered for each of them
KeyedPassword(triple) == IF triple[2] = <<"s">> THEN "tiger" ELSE "password"
KeyedInputs == {Settings(tr[3], tr[2], tr[1], KeyedPassword(tr)) : tr \in KeyedTriples}

NextKeyed ==
  \/ \E tr \in KeyedTriples, c \in Credentials :
       LoadSettings(tr[3], tr[2], tr[1], c.password, c.script)
  \/ \E settings \in KeyedInputs, c \in Credentials, iv \in 1..MaxNonce :
       SaveSettings(settings, c.password, c.script, iv)

\* db_save_settings and db_load_settings called for these triples
SpecKeyed == Init /\ [][NextKeyed]_vars

\* ------------------------------------------------------------------ claims
\* The settings file of an <<environment, hostname, database>> triple
FileOf(triple) == SettingsFileName(triple[1], triple[2], triple[3])
\* The fields of a settings record that db_connect uses, other than pwd
ConnectionFields ==
  {"database", "hostname", "protocol", "port", "uid", "environment", "security", "servercert"}

\* C1: for every unlocked key file and every non-empty pass phrase p,
\* db_keys_lock(p) directly followed by db_keys_unlock(p) leaves the key file
\* unlocked, with the secret and the secrethash it had before the lock.
C1_LockUnlockRoundTrip ==
  (lockSnap # NoSnap /\ lockSnap.age = 1) =>
    /\ keyfile # NoFile
    /\ ~keyfile.locked
    /\ keyfile.secret = lockSnap.pre.secret
    /\ keyfile.secrethash = lockSnap.pre.secrethash

\* the round trip happened, and it went through the locked state
C1_Witness ==
  /\ lockSnap # NoSnap
  /\ lockSnap.age = 1
  /\ last.op = "db_keys_unlock"
  /\ last.msg = "Secret key successfully unlocked"
  /\ keyfile.hash = blake2b(lockSnap.pass)

\* C2: a db_load_settings that follows a db_save_settings(s) that returned True,
\* for the environment, hostname and database of s up to case and with the same
\* secret key, returns s's plaintext password and s's other connection fields,
\* also when the key file is locked by then and the load is given its pass phrase.
C2_Precondition ==
  /\ last.op = "db_load_settings"
  /\ saved # NoSave
  /\ \A i \in 1..3 :
       Lower(last.triple[i])
         = Lower(<<saved.settings.environment, saved.settings.hostname,
                   saved.settings.database>>[i])
  /\ keyfile # NoFile
  /\ keyfile.secrethash = saved.secrethash
  /\ keyfile.locked => keyfile.hash = blake2b(last.pass)

C2_SettingsRoundTrip ==
  C2_Precondition =>
    /\ last.ret.k = "dict"
    /\ last.ret.v.pwd = saved.settings.pwd
    /\ \A f \in ConnectionFields : last.ret.v[f] = saved.settings[f]

\* a load under another spelling of the environment, with the key locked in between
C2_Witness ==
  /\ C2_Precondition
  /\ keyfile.locked
  /\ last.triple[1] # saved.settings.environment
  /\ last.ret.k = "dict"

\* C3: every settings file holds the password as a Fernet token made with the
\* secret key, never as plaintext, and its secrethash is the hash of that key,
\* which is the secret of the key file.
C3_EncryptedAtRest ==
  \A f \in DOMAIN setfiles :
    /\ setfiles[f].pwd.t = "fernet"
    /\ setfiles[f].pwd.key.src = "raw"
    /\ setfiles[f].secrethash = blake2b(setfiles[f].pwd.key.v)
    /\ keyfile # NoFile
    /\ setfiles[f].pwd.key = FernetKey(keyfile.secret.msg)
    /\ setfiles[f].secrethash = keyfile.secrethash

\* two settings files written, the last one with a temporarily unlocked key
C3_Witness ==
  /\ Cardinality(DOMAIN setfiles) = 2
  /\ last.op = "db_save_settings"
  /\ last.ret = RetTrue
  /\ keyfile # NoFile
  /\ keyfile.locked

\* C4: a newly generated key is stored unlocked with its secret in plaintext;
\* the key file is locked, its secret a Fernet token, only if the last operation
\* that changed it was a db_keys_lock that used a non-empty pass phrase; and
\* db_keys_get, db_load_settings and db_save_settings never change the locked
\* flag of an existing key file.
C4_LockedState ==
  (keyfile # NoFile /\ keyfile.locked) =>
    /\ keyChange.op = "db_keys_lock"
    /\ Truthy(keyChange.pass)
    /\ keyfile.secret.t = "fernet"

C4_GeneratedUnlocked ==
  keyChange.op = "generate" =>
    /\ keyfile # NoFile
    /\ ~keyfile.locked
    /\ keyfile.secret.t = "plain"

C4_ReadersKeepLock ==
  (/\ last'.op \in {"db_keys_get", "db_load_settings", "db_save_settings"}
   /\ keyfile # NoFile)
  => (keyfile' # NoFile /\ keyfile'.locked = keyfile.locked)

C4_NotEncryptedUntilLock ==
  /\ []C4_LockedState
  /\ []C4_GeneratedUnlocked
  /\ [][C4_ReadersKeepLock]_vars

\* settings were loaded with a locked key, which is still locked
C4_Witness ==
  /\ keyfile # NoFile
  /\ keyfile.locked
  /\ keyChange.op = "db_keys_lock"
  /\ last.op = "db_load_settings"
  /\ last.ret.k = "dict"

\* C5: db_keys_get on a locked key file, given the matching pass phrase (as its
\* argument or at its prompt), returns the key with locked = False and the
\* plaintext secret and leaves the file as it was, still locked; a locked key
\* file becomes unlocked only in a db_keys_unlock.
C5_GetLeavesFileLocked ==
  (/\ last'.op = "db_keys_get"
   /\ keyfile # NoFile
   /\ keyfile.locked
   /\ keyfile.hash = blake2b(last'.pass))
  => /\ last'.ret.k = "dict"
     /\ last'.ret.v.locked = FALSE
     /\ last'.ret.v.secret.t = "plain"
     /\ blake2b(last'.ret.v.secret.msg) = keyfile.secrethash
     /\ keyfile' = keyfile
     /\ keyperm' = keyperm

C5_OnlyUnlockUnlocks ==
  (keyfile # NoFile /\ keyfile.locked /\ (keyfile' = NoFile \/ ~keyfile'.locked))
  => last'.op = "db_keys_unlock"

C5_TemporaryUnlock ==
  /\ [][C5_GetLeavesFileLocked]_vars
  /\ [][C5_OnlyUnlockUnlocks]_vars

\* db_keys_get returned the unlocked key of a file that is locked
C5_Witness ==
  /\ last.op = "db_keys_get"
  /\ keyfile # NoFile
  /\ keyfile.locked
  /\ keyfile.hash = blake2b(last.pass)
  /\ last.ret.k = "dict"
  /\ ~last.ret.v.locked

\* C6: when db_keys_set returns a non-empty record the key file is owner
\* read/write only, and when db_save_settings returns True so is the settings
\* file it wrote; when the chmod fails, db_keys_set returns the empty record and
\* db_save_settings does not return True.
C6_OwnerOnly ==
  /\ (last.setret.k = "dict" /\ last.setret # EmptyDict) => keyperm = "0600"
  /\ (last.op = "db_save_settings" /\ last.ret = RetTrue) =>
       PermOf(setperm, FileOf(last.triple)) = "0600"
  /\ (last.setret # NoCall /\ fsKey = "chmod:PermissionError") => last.setret = EmptyDict
  /\ (last.op = "db_save_settings" /\ fsSettings = "chmod:PermissionError") =>
       last.ret # RetTrue

\* a settings file was written, its chmod failed, and the save returned False
C6_Witness ==
  /\ last.op = "db_save_settings"
  /\ last.ret = RetFalse
  /\ fsSettings = "chmod:PermissionError"
  /\ PermOf(setperm, FileOf(last.triple)) = "umask"

\* C7: when db_keys_lock returns True the key file is locked, and when
\* db_keys_unlock returns True the key file is unlocked, whatever the pass
\* phrase argument and the prompted input.
C7_ResultReflectsState ==
  /\ (last.op = "db_keys_lock" /\ last.ret = RetTrue) =>
       (keyfile # NoFile /\ keyfile.locked)
  /\ (last.op = "db_keys_unlock" /\ last.ret = RetTrue) =>
       (keyfile # NoFile /\ ~keyfile.locked)

\* C8: in db_credentials, db_save_settings is called only with the settings the
\* last db_connect was given, after db_connected() reported that connection
\* active, in the verify and reset actions only; settings whose connection
\* attempt failed are not written.
C8_VerifiedBeforeSaved ==
  /\ saveLog # NoLog =>
       /\ ccmd.name = "db_credentials"
       /\ ccmd.action \in {"verify", "reset"}
       /\ connectLog # NoLog
       /\ connectLog.arg = saveLog.settings
       /\ connectLog.connected
       /\ hdbc # NoHandle
       /\ hdbc.dsn = Dsn(saveLog.settings.v)
  /\ (connectLog # NoLog /\ ~connectLog.connected) => saveLog = NoLog

\* verify loaded settings, could not connect at first, connected at the second
\* attempt and wrote them back
C8_Witness ==
  /\ saveLog # NoLog
  /\ saveLog.wrote
  /\ ccmd.action = "verify"
  /\ loadLog # NoLog
  /\ loadLog.ret.k = "dict"
  /\ "Current credentials are incorrect, enter new credentials" \in cout

\* C9: db_export and db_import give db_connect the settings db_load_settings
\* returned, process tables only with an active connection opened with them,
\* and when there is no connection print "Database connection failed,
\* quitting." and exit with status 1.
C9_TransferConnectsWithLoaded ==
  ccmd.name \in {"db_export", "db_import"} =>
    /\ connectLog # NoLog => connectLog.arg = loadLog.ret
    /\ cpc = "transfer_main" =>
         (db_connected(hdbc) /\ hdbc.dsn = Dsn(loadLog.ret.v))
    /\ (cpc = "exit" /\ connectLog # NoLog /\ ~connectLog.connected) =>
         /\ "Database connection failed, quitting." \in cout
         /\ cexit = [status |-> 1, exc |-> "none"]

\* C10: import_table deletes the rows of the table before it inserts the first
\* row of the file, and when the CSV file of the table (in _folder, named
\* <schema>-<table>.csv in lower case) does not exist it returns None with no
\* row deleted and no row inserted.
C10_DeleteBeforeInsert ==
  /\ \A i \in 1..Len(ievents) :
       ievents[i] = "insert" => \E j \in 1..(i - 1) : ievents[j] = "delete"
  /\ (ipc # "idle" /\ filecsv = NoFile) =>
       /\ ievents = <<>>
       /\ itable = icall.before
       /\ ipc = "return" => iret = RetNone

\* old rows were deleted and two rows of the file inserted
C10_Witness ==
  /\ ipc = "return"
  /\ icall.tbname = <<"T">>
  /\ iret = RetTrue
  /\ icall.before # <<>>
  /\ ievents = <<"delete", "insert", "insert">>

\* a call that found no file and returned, the table as it was
C10_WitnessBypass ==
  /\ ipc = "return"
  /\ filecsv = NoFile
  /\ iret = RetNone
  /\ itable # <<>>

\* C11: when import_table has returned True, the number of rows inserted is
\* the number of data rows of the file: with --headers every row but the first,
\* which is the column list, and with --no-headers every row, the first
\* included.
DataRows(rows, headers_expected) ==
  IF headers_expected THEN SubSeq(rows, 2, Len(rows)) ELSE rows
C11_HeadersOption ==
  (ipc = "return" /\ iret = RetTrue) =>
    /\ icount.table_rows = Len(DataRows(filecsv.rows, icall.headers_expected))
    /\ Len(itable) = icount.table_rows
    /\ \A i \in 1..Len(itable) :
         itable[i].values = Variables(DataRows(filecsv.rows, icall.headers_expected)[i])

\* C12: what db_show_settings printed does not depend on the password: it is
\* what it prints for the same settings with any other non-empty pwd, and the
\* pwd line is "password: [not displayed]".
OtherPasswords == {"password", "tiger", "p"}
C12_PasswordNotDisplayed ==
  (cshown # <<>> /\ clocal.settings.v.pwd # Plain("")) =>
    /\ \E i \in 1..Len(cshown) : cshown[i] = "password: [not displayed]"
    /\ \A p \in OtherPasswords :
         db_show_settings(RetDict([clocal.settings.v EXCEPT !.pwd = Plain(p)])) = cshown

\* verify --show printed settings whose password was entered at the prompt
C12_Witness ==
  /\ cshown # <<>>
  /\ ccmd.action = "verify"
  /\ clocal.settings.v.pwd = Plain("tiger")
  /\ cpc = "exit"

\* C13: settings are keyed by the lower-cased <<environment, hostname,
\* database>>: the settings db_load_settings returns for a triple are settings
\* that were saved for that triple, and a file that holds the settings of one
\* triple is never overwritten with the settings of another.
LowerTriple(settings) ==
  <<Lower(settings.environment), Lower(settings.hostname), Lower(settings.database)>>
C13_KeyedByTriple ==
  /\ (last.op = "db_load_settings" /\ last.ret.k = "dict" /\ last.ret # EmptyDict) =>
       LowerTriple(last.ret.v) = <<Lower(last.triple[1]), Lower(last.triple[2]),
                                   Lower(last.triple[3])>>
  /\ \A s1, s2 \in KeyedInputs :
       (ReadFile(setfiles, FileOf(LowerTriple(s1))) # NoFile
          /\ LowerTriple(s1) # LowerTriple(s2))
         => FileOf(LowerTriple(s1)) # FileOf(LowerTriple(s2))

\* C14: the key file's secrethash is the hash of its plaintext secret; no call
\* changes the secret or the secrethash of a key file that exists, or generates
\* a secret while one exists; and when db_save_settings makes a new key because
\* db_keys_get returned none, there is no key file for it to replace.
C14_HashOfSecret ==
  keyfile # NoFile => keyfile.secrethash = blake2b(keyfile.secret.msg)
C14_KeptByCalls ==
  [][keyfile # NoFile =>
       /\ keyfile' # NoFile
       /\ keyfile'.secret.msg = keyfile.secret.msg
       /\ keyfile'.secrethash = keyfile.secrethash
       /\ keysGenerated' = keysGenerated]_vars
C14_NewKeyOnlyWithoutFile == last.regen = NoFile
C14_SecretNeverReplaced ==
  /\ []C14_HashOfSecret
  /\ C14_KeptByCalls
  /\ []C14_NewKeyOnlyWithoutFile
====
